---- MODULE Spec2Model ----
(***************************************************************************)
(* Model of the BiashAI request layer (pos_ai/views.py) over its           *)
(* relational schema (pos_ai/models.py): shopping sessions, carts, the     *)
(* checkout unit and the loyalty ledger.                                   *)
(*                                                                         *)
(* Requests run concurrently.  Every database statement of a handler is     *)
(* one step; statements issued inside `with transaction.atomic()` are       *)
(* buffered in the request (field tx) and become visible at COMMIT, with    *)
(* row locks taken by UPDATE and unique indexes checked by INSERT          *)
(* (READ COMMITTED, the isolation Django uses on its server databases).     *)
(*                                                                         *)
(* Amounts: prices are kept in cents, VAT rates in hundredths of a         *)
(* percent, and Decimal intermediate results in millionths of a shilling   *)
(* (Micro), so that price * quantity * vat_rate / 100 is exact, as it is   *)
(* with Python's 28-digit Decimal.                                         *)
(***************************************************************************)
EXTENDS Integers, Sequences, FiniteSets, TLC

\* ---------------------------------------------------------------- bounds
MaxQty == 1
SeedPoints == 2

\* ------------------------------------------------------- seeded catalogue
Users == {"u1", "u2"}
Products == {1, 2}
Accounts == {1, 2}
\* the deployments: the worker pool serving requests and the products the
\* store stocks (seed_store_inventory stocks a part of the catalogue)
Deployments == {[workers |-> {1}, stocked |-> {1, 2}],
                [workers |-> {1, 2}, stocked |-> {2}]}
\* the users with an active FacialData row
FaceUsers == {"u1", "u2"}
\* the ids a ShoppingSession row can take, in the order they are handed out
SessionIds == {1, 2}

\* Product.price (cents) and Product.vat_rate (hundredths of a percent)
ProductPrice == <<1015, 2015>>
ProductVatRate == <<1600, 1600>>
\* StoreInventory.quantity of the seeded rows of the store
InitStock == <<1, 3>>
\* PaymentAccount.user of the accounts (all active)
AccountOwner == <<"u1", "u2">>
\* PaymentAccount.is_verified: the seed creates verified accounts (account 1),
\* add_payment_account creates unverified ones (account 2, added by u2); the
\* seeded account is its user's primary one, the added one is not
AccountVerified == <<TRUE, FALSE>>

\* a cent and a shilling in the unit of the Decimal intermediates: a price in
\* cents times a rate in hundredths of a percent is in 1/10000 of a cent
CentMicro == 10000
UnitMicro == 1000000

VARIABLES
    sessions,       \* ShoppingSession rows, id = index
    cart,           \* ShoppingCart rows: cart[s][p], quantity 0 = no row
    inventory,      \* StoreInventory.quantity per product of the store
    transactions,   \* Transaction rows, id = index
    items,          \* TransactionItem rows
    loyalty,        \* LoyaltyProgram rows, id = index
    loyalty_txns,   \* LoyaltyTransaction rows
    fr_log,         \* FaceRecognitionLog rows
    audit_log,      \* AuditLog rows
    products,       \* Product rows: price, vat_rate, is_active
    accounts,       \* PaymentAccount rows, by id
    facial,         \* FacialData rows, id = index
    custom_users,   \* CustomUser rows: username, email, phone_number
    cart_rows,      \* ShoppingCart rows one by one, id = index (SpecCart)
    req             \* requests in flight: position and local variables

\* the tables the shopping and checkout handlers never write
rest == <<products, accounts, facial, custom_users, cart_rows>>
db == <<sessions, cart, inventory, transactions, items, loyalty,
        loyalty_txns, fr_log, audit_log, rest>>
vars == <<sessions, cart, inventory, transactions, items, loyalty,
          loyalty_txns, fr_log, audit_log, rest, req>>

\* ------------------------------------------------------------- helpers
RECURSIVE SumSet(_, _)
SumSet(S, f) ==
    IF S = {} THEN 0
    ELSE LET x == CHOOSE y \in S : TRUE IN f[x] + SumSet(S \ {x}, f)

Indices(seq) == 1..Len(seq)

Requests == DOMAIN req

Min(S) == CHOOSE x \in S : \A y \in S : x <= y

NoLine == [quantity |-> 0, unit_price |-> 0]

\* the statements an atomic block has issued and not yet committed
NoTx == [txn |-> <<>>, items |-> <<>>, stock |-> <<>>, session |-> <<>>,
         fr_log |-> <<>>, loyalty_new |-> <<>>, loyalty_set |-> <<>>,
         loyalty_txns |-> <<>>, audit_log |-> <<>>]

Idle == [pc |-> "idle", user |-> "", sid |-> 0, method |-> "", lines |-> <<>>,
         subtotal |-> 0, vat_amount |-> 0, total |-> 0, account |-> 0,
         cur |-> 0, read |-> 0, loyalty |-> <<>>, tx |-> NoTx,
         item |-> 0, price |-> 0, quantity |-> 0, form |-> <<>>]

\* ------------------------------------------------------------- amounts
\* DecimalField(decimal_places=2): the value is quantized to cents when the
\* row is saved (round half to even; the rates of the catalogue never
\* produce a tie).
Quantize(m) ==
    LET q == m \div CentMicro
        r == m % CentMicro
    IN  IF 2 * r > CentMicro THEN q + 1
        ELSE IF 2 * r = CentMicro /\ q % 2 = 1 THEN q + 1
        ELSE q

\* ShoppingCart.subtotal: unit_price * quantity
CartSubtotal(line) == line.unit_price * line.quantity * CentMicro

\* item.subtotal * item.product.vat_rate / 100
CartVat(line) == line.unit_price * line.quantity * line.vat_rate

\* int(total): 1 KES = 1 point
Points(total) == total \div UnitMicro

\* ------------------------------------------------------------- queries
\* the lookup without the status filter
SessionFoundAnyStatus(sid, u, activeOnly) ==
    /\ sid \in Indices(sessions)
    /\ sessions[sid].user = u

SessionFound(sid, u, activeOnly) ==
    /\ sid \in Indices(sessions)
    /\ sessions[sid].user = u
    /\ activeOnly => sessions[sid].status = "ACTIVE"

\* hasattr(request.user, 'facial_data') and request.user.facial_data.is_active
HasFace(u) ==
    \E i \in Indices(facial) :
        ~facial[i].deleted /\ facial[i].user = u /\ facial[i].is_active

ActiveSessionsOf(u) ==
    {s \in Indices(sessions) : sessions[s].user = u /\ sessions[s].status = "ACTIVE"}

CartProducts(sid) == {p \in Products : cart[sid][p].quantity > 0}

LoyaltyOf(u) == {i \in Indices(loyalty) : loyalty[i].user = u}

TransactionsOf(sid) == {t \in Indices(transactions) : transactions[t].session = sid}

\* --------------------------------------------------------------- seeding
\* redeemed_points = random.randint(0, total_points // 2): the largest draw
SeedRedeemed(total_points) == total_points \div 2

\* seed_loyalty_programs: the row created for a verified user (u1) whose
\* completed transactions are worth total_points
SeedLoyaltyProgram(u, total_points, redeemed_points) ==
    [user |-> u,
     total_points_earned |-> total_points,
     total_points_redeemed |-> redeemed_points,
     current_balance |-> total_points - redeemed_points]

\* seed_loyalty_transactions: one EARN row per completed transaction of the
\* user (here one seeded transaction, worth total_points, which is not a row of
\* transactions: related_transaction 0); a REDEEM row is drawn only above a
\* balance of 100
SeedLoyaltyTransactions(lid, total_points) ==
    <<[loyalty_program |-> lid, transaction_type |-> "EARN",
       points |-> total_points, balance_after |-> total_points,
       related_transaction |-> 0]>>

\* seed_products: the catalogue rows
SeedProducts ==
    [p \in Products |-> [price |-> ProductPrice[p], vat_rate |-> ProductVatRate[p],
                         is_active |-> TRUE]]

\* the PaymentAccount rows: seed_payment_accounts, add_payment_account
SeedAccounts ==
    [a \in Accounts |-> [user |-> AccountOwner[a], is_active |-> TRUE,
                          is_verified |-> AccountVerified[a],
                          is_primary |-> AccountVerified[a],
                          account_number |-> "+254" \o AccountOwner[a]]]

\* a FacialData row with the encoding of the image it was made from
FacialRow(u, face_encoding) ==
    [user |-> u, face_encoding |-> face_encoding, is_active |-> TRUE,
     deleted |-> FALSE]

\* seed_facial_data: one active row per user with a face
SeedFacialData ==
    SelectSeq(<<FacialRow("u1", 0), FacialRow("u2", 0)>>,
              LAMBDA f : f.user \in FaceUsers)

\* the CustomUser rows of the customers
SeedUsers ==
    {[username |-> u, email |-> u \o "@example.com", phone_number |-> "+254" \o u] :
        u \in Users}

\* the tables that only the account, registration and cart-row handlers write
InitRest ==
    /\ products = SeedProducts
    /\ accounts = SeedAccounts
    /\ facial = SeedFacialData
    /\ custom_users = SeedUsers
    /\ cart_rows = <<>>

\* the state after seeding, before the first request, of deployment d
InitDeployed(d) ==
    /\ InitRest
    /\ sessions = <<>>
    /\ cart = [s \in SessionIds |-> [p \in Products |-> NoLine]]
    /\ inventory = [p \in d.stocked |-> InitStock[p]]
    /\ req = [r \in d.workers |-> Idle]
    /\ transactions = <<>>
    /\ items = <<>>
    /\ loyalty = <<SeedLoyaltyProgram("u1", SeedPoints, SeedRedeemed(SeedPoints))>>
    /\ loyalty_txns = SeedLoyaltyTransactions(1, SeedPoints)
    /\ fr_log = {}
    /\ audit_log = {}

Init == \E d \in Deployments : InitDeployed(d)

\* ------------------------------------------------------ request plumbing
Finish(r) == req' = [req EXCEPT ![r] = Idle]

Goto(r, f) == req' = [req EXCEPT ![r] = f]

InAtomic(f) == f.tx.txn # <<>>

\* log_audit called without the object id
AuditRowWithoutObject(u, action, model_name, object_id) ==
    [user |-> u, action |-> action, model_name |-> model_name, object_id |-> 0]

\* log_audit
AuditRow(u, action, model_name, object_id) ==
    [user |-> u, action |-> action, model_name |-> model_name,
     object_id |-> object_id]

\* ------------------------------------------------ start_shopping_session
\* the face check and the query for an existing ACTIVE session of the user
StartShoppingSession(r) ==
    /\ req[r].pc = "idle"
    /\ \E u \in Users :
          IF HasFace(u) /\ ActiveSessionsOf(u) = {}
          THEN Goto(r, [Idle EXCEPT !.pc = "ss_create", !.user = u])
          ELSE UNCHANGED req
    /\ UNCHANGED db

\* ShoppingSession.objects.create, FaceRecognitionLog.objects.create, log_audit
SsCreate(r) ==
    /\ req[r].pc = "ss_create"
    /\ Len(sessions) + 1 \in SessionIds
    /\ LET sid == Len(sessions) + 1 IN
       /\ sessions' = Append(sessions, [user |-> req[r].user, status |-> "ACTIVE",
                                        exit_time |-> FALSE])
       /\ fr_log' = fr_log \cup {[user |-> req[r].user, recognition_type |-> "ENTRY",
                                    session |-> sid, transaction |-> 0]}
       /\ audit_log' = audit_log \cup
                              {AuditRow(req[r].user, "CREATE", "ShoppingSession", sid)}
    /\ Finish(r)
    /\ UNCHANGED <<cart, inventory, transactions, items, loyalty, loyalty_txns, rest>>

\* ------------------------------------------------------------ cart views
add_to_cart(u, sid, p) ==
    /\ SessionFound(sid, u, TRUE)
    /\ products[p].is_active
    /\ p \in DOMAIN inventory
    /\ inventory[p] > 0
    /\ cart[sid][p].quantity < MaxQty
    /\ cart' = [cart EXCEPT ![sid][p] =
                  IF @.quantity = 0
                  THEN [quantity |-> 1, unit_price |-> products[p].price]
                  ELSE [@ EXCEPT !.quantity = @ + 1]]
    /\ UNCHANGED <<sessions, inventory, transactions, items, loyalty,
                   loyalty_txns, fr_log, audit_log, rest, req>>

update_cart_item(u, sid, p, quantity) ==
    /\ SessionFound(sid, u, FALSE)
    /\ cart[sid][p].quantity > 0
    /\ cart' = [cart EXCEPT ![sid][p] =
                  IF quantity <= 0 THEN NoLine ELSE [@ EXCEPT !.quantity = quantity]]
    /\ UNCHANGED <<sessions, inventory, transactions, items, loyalty,
                   loyalty_txns, fr_log, audit_log, rest, req>>

remove_from_cart(u, sid, p) ==
    /\ SessionFound(sid, u, FALSE)
    /\ cart[sid][p].quantity > 0
    /\ cart' = [cart EXCEPT ![sid][p] = NoLine]
    /\ UNCHANGED <<sessions, inventory, transactions, items, loyalty,
                   loyalty_txns, fr_log, audit_log, rest, req>>

\* ------------------------------------------------------ loyalty_dashboard
\* the unique index of LoyaltyProgram.user (OneToOneField): an INSERT waits
\* for an uncommitted row of the same user and fails against a committed one
LoyaltyInsertBlocked(r, u) ==
    \E o \in Requests \ {r} : req[o].tx.loyalty_new # <<>> /\ req[o].user = u

\* LoyaltyProgram.user without its unique index
LoyaltyInsertUnchecked(u) == TRUE

LoyaltyInsertOk(u) == LoyaltyOf(u) = {}

NewLoyaltyProgram(u) ==
    [user |-> u, total_points_earned |-> 0, total_points_redeemed |-> 0,
     current_balance |-> 0]

\* loyalty = request.user.loyalty
LoyaltyDashboard(r) ==
    /\ req[r].pc = "idle"
    /\ \E u \in Users :
          IF LoyaltyOf(u) = {}
          THEN Goto(r, [Idle EXCEPT !.pc = "ld_create", !.user = u])
          ELSE UNCHANGED req
    /\ UNCHANGED db

\* except LoyaltyProgram.DoesNotExist: LoyaltyProgram.objects.create(user=...)
LdCreate(r) ==
    /\ req[r].pc = "ld_create"
    /\ ~LoyaltyInsertBlocked(r, req[r].user)
    /\ IF LoyaltyInsertOk(req[r].user)
       THEN loyalty' = Append(loyalty, NewLoyaltyProgram(req[r].user))
       ELSE UNCHANGED loyalty
    /\ Finish(r)
    /\ UNCHANGED <<sessions, cart, inventory, transactions, items,
                   loyalty_txns, fr_log, audit_log, rest>>

\* --------------------------------------------------------------- checkout
\* A position of a request is kept only where another request can observe or
\* change what the next statement depends on: a statement that takes a lock
\* (an INSERT into a unique index, an UPDATE of a row) is one step together
\* with the SELECT that follows it.

IsPost(method) == method = "POST"

\* get_object_or_404(ShoppingSession, id, user, status='ACTIVE'); a GET only
\* reads (lookup, exists(), totals, payment accounts) and renders the page
Checkout(r) ==
    /\ req[r].pc = "idle"
    /\ \E u \in Users, sid \in SessionIds, method \in {"GET", "POST"} :
          IF SessionFound(sid, u, TRUE) /\ IsPost(method)
          THEN Goto(r, [Idle EXCEPT !.pc = "co_exists", !.user = u, !.sid = sid,
                                    !.method = method])
          ELSE UNCHANGED req
    /\ UNCHANGED db

\* cart_items.exists()
CartExists(sid) == CartProducts(sid) # {}

CoCartExists(r) ==
    /\ req[r].pc = "co_exists"
    /\ IF CartExists(req[r].sid)
       THEN Goto(r, [req[r] EXCEPT !.pc = "co_totals"])
       ELSE Finish(r)
    /\ UNCHANGED db

\* the rows the queryset cart_items holds once it has been evaluated
CartLines(sid) ==
    [p \in CartProducts(sid) |->
        [quantity |-> cart[sid][p].quantity,
         unit_price |-> cart[sid][p].unit_price,
         vat_rate |-> products[p].vat_rate]]

\* the subtotal of the first row of the queryset only
SubtotalOfFirstLine(lines) ==
    IF DOMAIN lines = {} THEN 0 ELSE CartSubtotal(lines[Min(DOMAIN lines)])

\* sum(item.subtotal for item in cart_items)
Subtotal(lines) == SumSet(DOMAIN lines, [p \in DOMAIN lines |-> CartSubtotal(lines[p])])

VatAmount(lines) == SumSet(DOMAIN lines, [p \in DOMAIN lines |-> CartVat(lines[p])])

\* get_object_or_404(PaymentAccount, id=..., user=request.user, is_active=True)
AccountFound(a, u) ==
    /\ a \in DOMAIN accounts
    /\ accounts[a].user = u
    /\ accounts[a].is_active

\* subtotal, vat_amount and total are computed from the evaluated queryset,
\* then: get_object_or_404(PaymentAccount, id, user, is_active=True)
CoTotals(r) ==
    /\ req[r].pc = "co_totals"
    /\ LET lines == CartLines(req[r].sid) IN
       \E a \in Accounts :
          IF AccountFound(a, req[r].user)
          THEN Goto(r, [req[r] EXCEPT !.pc = "co_insert",
                                      !.lines = lines,
                                      !.subtotal = Subtotal(lines),
                                      !.vat_amount = VatAmount(lines),
                                      !.total = Subtotal(lines) + VatAmount(lines),
                                      !.account = a])
          ELSE Finish(r)
    /\ UNCHANGED db

\* an INSERT that does not wait for the uncommitted row of another request
TransactionInsertNeverBlocked(r, sid) == FALSE

\* the unique index of Transaction.session (OneToOneField): an INSERT waits
\* for an uncommitted row of the same session and fails against a committed one
TransactionInsertBlocked(r, sid) ==
    \E o \in Requests \ {r} : InAtomic(req[o]) /\ req[o].sid = sid

\* Transaction.session without its unique index
TransactionInsertUnchecked(sid) == TRUE

TransactionInsertOk(sid) == TransactionsOf(sid) = {}

NewTransaction(f) ==
    [session |-> f.sid, user |-> f.user, payment_account |-> f.account,
     subtotal |-> Quantize(f.subtotal),
     vat_amount |-> Quantize(f.vat_amount),
     discount_amount |-> 0,
     total_amount |-> Quantize(f.total),
     status |-> "PENDING", completed_at |-> FALSE]

FirstLine(lines) == IF DOMAIN lines = {} THEN 0 ELSE Min(DOMAIN lines)

NextLine(lines, p) ==
    IF {x \in DOMAIN lines : x > p} = {} THEN 0
    ELSE Min({x \in DOMAIN lines : x > p})

NewTransactionItem(p, line) ==
    [transaction |-> 0, product |-> p, quantity |-> line.quantity,
     unit_price |-> line.unit_price, vat_rate |-> line.vat_rate,
     subtotal |-> Quantize(CartSubtotal(line)),
     vat_amount |-> Quantize(CartVat(line)),
     total |-> Quantize(CartSubtotal(line) + CartVat(line))]

\* session.exit_time = now; session.save() with the status left as it is
CloseSessionKeepStatus(row) == [row EXCEPT !.exit_time = TRUE]

\* session.status = 'COMPLETED'; session.exit_time = now; session.save()
CloseSession(row) == [row EXCEPT !.status = "COMPLETED", !.exit_time = TRUE]

\* transaction_obj.status = 'COMPLETED'; completed_at = now; save()
CompleteTransaction(row) == [row EXCEPT !.status = "COMPLETED", !.completed_at = TRUE]

\* for cart_item in cart_items: TransactionItem.objects.create(...) and
\* StoreInventory.objects.get(store, product)
ReadStock(f) ==
    LET p == f.cur IN
    IF p \in DOMAIN inventory
    THEN [f EXCEPT !.pc = "co_stock",
                   !.read = inventory[p],
                   !.tx.items = Append(@, NewTransactionItem(p, f.lines[p]))]
    ELSE [f EXCEPT !.pc = "co_rollback"]

\* after the loop the session and the transaction are saved as COMPLETED and
\* the CHECKOUT recognition is logged, then: loyalty = request.user.loyalty
ReadLoyalty(f) ==
    LET g == [f EXCEPT
                !.tx.session = <<CloseSession(sessions[f.sid])>>,
                !.tx.txn = <<CompleteTransaction(@[1])>>,
                !.tx.fr_log = <<[user |-> f.user, recognition_type |-> "CHECKOUT",
                                 session |-> f.sid, transaction |-> 0]>>] IN
    IF LoyaltyOf(f.user) # {}
    THEN LET i == Min(LoyaltyOf(f.user)) IN
         [g EXCEPT !.pc = "co_commit", !.loyalty = <<i, loyalty[i]>>]
    ELSE [g EXCEPT !.pc = "co_loyalty_create"]

Continue(f) == IF f.cur # 0 THEN ReadStock(f) ELSE ReadLoyalty(f)

\* with transaction.atomic(): Transaction.objects.create(...)
CoInsertTransaction(r) ==
    /\ req[r].pc = "co_insert"
    /\ ~TransactionInsertBlocked(r, req[r].sid)
    /\ IF TransactionInsertOk(req[r].sid)
       THEN Goto(r, Continue([req[r] EXCEPT
                                !.cur = FirstLine(req[r].lines),
                                !.tx.txn = <<NewTransaction(req[r])>>]))
       ELSE Goto(r, [Idle EXCEPT !.pc = "co_rollback", !.user = req[r].user,
                                 !.sid = req[r].sid, !.method = req[r].method])
    /\ UNCHANGED db

\* the row lock an UPDATE of a StoreInventory row holds until the block ends
StockLocked(tx) == {tx.stock[i][1] : i \in Indices(tx.stock)}

InventoryLocked(r, p) == \E o \in Requests \ {r} : p \in StockLocked(req[o].tx)

Decrement(quantity, by) == quantity - by

\* inventory.quantity -= cart_item.quantity; inventory.save()
CoStock(r) ==
    /\ req[r].pc = "co_stock"
    /\ LET p == req[r].cur IN
       /\ ~InventoryLocked(r, p)
       /\ Goto(r, Continue([req[r] EXCEPT
                !.cur = NextLine(req[r].lines, p),
                !.tx.stock = Append(@, <<p, Decrement(req[r].read,
                                                      req[r].lines[p].quantity)>>)]))
    /\ UNCHANGED db

\* the award without the update of current_balance
AwardPointsEarnedOnly(row, points_earned) ==
    [row EXCEPT !.total_points_earned = @ + points_earned]

\* loyalty.total_points_earned += points_earned;
\* loyalty.current_balance += points_earned
AwardPoints(row, points_earned) ==
    [row EXCEPT !.total_points_earned = @ + points_earned,
                !.current_balance = @ + points_earned]

RECURSIVE ApplyStock(_, _)
ApplyStock(inv, writes) ==
    IF writes = <<>> THEN inv
    ELSE ApplyStock([inv EXCEPT ![Head(writes)[1]] = Head(writes)[2]], Tail(writes))

\* the statements of a block become visible: rows get their ids
Flush(sid, tx) ==
    LET tid == Len(transactions) + 1
        lid == IF tx.loyalty_new # <<>> THEN Len(loyalty) + 1
               ELSE IF tx.loyalty_set # <<>> THEN tx.loyalty_set[1][1] ELSE 0 IN
    /\ transactions' = transactions \o tx.txn
    /\ items' = items \o [i \in Indices(tx.items) |->
                             [tx.items[i] EXCEPT !.transaction = tid]]
    /\ inventory' = ApplyStock(inventory, tx.stock)
    /\ sessions' = IF tx.session = <<>> THEN sessions
                   ELSE [sessions EXCEPT ![sid] = tx.session[1]]
    /\ fr_log' = fr_log \cup {[tx.fr_log[i] EXCEPT !.transaction = tid] :
                                  i \in Indices(tx.fr_log)}
    /\ loyalty' = IF tx.loyalty_set = <<>> THEN loyalty \o tx.loyalty_new
                  ELSE [loyalty EXCEPT ![lid] = tx.loyalty_set[1][2]]
    /\ loyalty_txns' = loyalty_txns \o [i \in Indices(tx.loyalty_txns) |->
                           [tx.loyalty_txns[i] EXCEPT !.loyalty_program = lid,
                                                      !.related_transaction = tid]]
    /\ audit_log' = audit_log \cup {[tx.audit_log[i] EXCEPT !.object_id = tid] :
                                        i \in Indices(tx.audit_log)}

\* points_earned = int(total); loyalty.save();
\* LoyaltyTransaction.objects.create(...); log_audit(...)
AwardLoyalty(f) ==
    LET points_earned == Points(f.total)
        row == AwardPoints(f.loyalty[2], points_earned) IN
    [f.tx EXCEPT
        !.loyalty_new = IF f.loyalty[1] = 0 THEN <<row>> ELSE <<>>,
        !.loyalty_set = IF f.loyalty[1] = 0 THEN <<>> ELSE <<<<f.loyalty[1], row>>>>,
        !.loyalty_txns = <<[loyalty_program |-> 0,
                            transaction_type |-> "EARN",
                            points |-> points_earned,
                            balance_after |-> row.current_balance,
                            related_transaction |-> 0]>>,
        !.audit_log = <<AuditRow(f.user, "PAYMENT", "Transaction", 0)>>]

\* except LoyaltyProgram.DoesNotExist: LoyaltyProgram.objects.create(user=...),
\* then the points are awarded and the atomic block ends: COMMIT
CoCreateLoyalty(r) ==
    /\ req[r].pc = "co_loyalty_create"
    /\ ~LoyaltyInsertBlocked(r, req[r].user)
    /\ IF LoyaltyInsertOk(req[r].user)
       THEN /\ Flush(req[r].sid,
                     AwardLoyalty([req[r] EXCEPT
                                     !.loyalty = <<0, NewLoyaltyProgram(req[r].user)>>]))
            /\ Finish(r)
       ELSE /\ Goto(r, [req[r] EXCEPT !.pc = "co_rollback"])
            /\ UNCHANGED <<sessions, inventory, transactions, items, loyalty,
                           loyalty_txns, fr_log, audit_log>>
    /\ UNCHANGED <<cart, rest>>

\* the points are awarded on the row that was read and the block ends: COMMIT
CoCommit(r) ==
    /\ req[r].pc = "co_commit"
    /\ Flush(req[r].sid, AwardLoyalty(req[r]))
    /\ Finish(r)
    /\ UNCHANGED <<cart, rest>>

\* the statements of a failed block stay, as they would without atomic()
OnRollbackKeep(tx) == tx

\* an exception leaves the atomic block: ROLLBACK discards its statements
OnRollback(tx) == NoTx

CoRollback(r) ==
    /\ req[r].pc = "co_rollback"
    /\ Flush(req[r].sid, OnRollback(req[r].tx))
    /\ Finish(r)
    /\ UNCHANGED <<cart, rest>>

Next ==
    \/ \E r \in Requests : StartShoppingSession(r)
    \/ \E r \in Requests : SsCreate(r)
    \/ \E u \in Users, sid \in SessionIds, p \in Products : add_to_cart(u, sid, p)
    \/ \E u \in Users, sid \in SessionIds, p \in Products, q \in 0..MaxQty :
          update_cart_item(u, sid, p, q)
    \/ \E u \in Users, sid \in SessionIds, p \in Products : remove_from_cart(u, sid, p)
    \/ \E r \in Requests : LoyaltyDashboard(r)
    \/ \E r \in Requests : LdCreate(r)
    \/ \E r \in Requests : Checkout(r)
    \/ \E r \in Requests : CoCartExists(r)
    \/ \E r \in Requests : CoTotals(r)
    \/ \E r \in Requests : CoInsertTransaction(r)
    \/ \E r \in Requests : CoStock(r)
    \/ \E r \in Requests : CoCreateLoyalty(r)
    \/ \E r \in Requests : CoCommit(r)
    \/ \E r \in Requests : CoRollback(r)

Spec == Init /\ [][Next]_vars

\* ======================================================================
\* Properties
\* ======================================================================
CommitPcs == {"co_commit", "co_loyalty_create"}

ItemsOf(t) == {i \in Indices(items) : items[i].transaction = t}

SoldQuantity(p) ==
    LET S == {i \in Indices(items) : items[i].product = p} IN
    SumSet(S, [i \in S |-> items[i].quantity])

\* C1: every StoreInventory row has quantity >= 0 in every state, in
\* particular after a checkout has committed.
StockNeverNegative == \A p \in DOMAIN inventory : inventory[p] >= 0

\* C2: no user has more than one ACTIVE ShoppingSession at a time, whatever
\* the interleaving of start_shopping_session requests.
OneActiveSessionPerUser == \A u \in Users : Cardinality(ActiveSessionsOf(u)) <= 1

\* C3: for every committed transaction the persisted TransactionItem.total
\* values add up to the persisted Transaction.total_amount.
ItemTotalsMatchTransaction ==
    \A t \in Indices(transactions) :
        SumSet(ItemsOf(t), [i \in ItemsOf(t) |-> items[i].total])
            = transactions[t].total_amount

\* C4: every LoyaltyProgram row satisfies current_balance =
\* total_points_earned - total_points_redeemed, whether it was seeded,
\* created by loyalty_dashboard or created and updated by checkout.
LoyaltyBalanceIsEarnedMinusRedeemed ==
    \A i \in Indices(loyalty) :
        loyalty[i].current_balance
            = loyalty[i].total_points_earned - loyalty[i].total_points_redeemed

\* a seeded row with redeemed points has been awarded points by a checkout
SeededProgramAwarded ==
    \E i \in Indices(loyalty) :
        /\ loyalty[i].total_points_redeemed > 0
        /\ \E j \in Indices(loyalty_txns) :
              /\ loyalty_txns[j].loyalty_program = i
              /\ loyalty_txns[j].related_transaction \in Indices(transactions)

\* C5: a session is settled exactly once: it never has two Transactions, a
\* COMPLETED session has exactly one, that Transaction has one item per
\* product and exactly one EARN row, stock is never taken twice for one
\* session and is taken exactly once as long as a single session has been
\* settled, and a checkout is refused by the one-transaction-per-session
\* constraint only when another checkout of the session has committed.
SettledExactlyOnce ==
    /\ \A s \in SessionIds :
          /\ Cardinality(TransactionsOf(s)) <= 1
          /\ (s \in Indices(sessions) /\ sessions[s].status = "COMPLETED")
                => Cardinality(TransactionsOf(s)) = 1
    /\ \A t \in Indices(transactions) :
          /\ Cardinality({j \in Indices(loyalty_txns) :
                            /\ loyalty_txns[j].related_transaction = t
                            /\ loyalty_txns[j].transaction_type = "EARN"}) = 1
          /\ \A p \in Products :
                Cardinality({i \in ItemsOf(t) : items[i].product = p}) <= 1
    /\ \A p \in DOMAIN inventory :
          LET S == {s \in SessionIds : TransactionsOf(s) # {}}
              q == [s \in S |->
                      LET I == {i \in ItemsOf(Min(TransactionsOf(s))) :
                                  items[i].product = p} IN
                      SumSet(I, [i \in I |-> items[i].quantity])] IN
          /\ inventory[p] >= InitStock[p] - SumSet(S, q)
          /\ Cardinality(S) <= 1 => inventory[p] = InitStock[p] - SoldQuantity(p)
    /\ \A r \in Requests :
          (req[r].pc = "co_rollback" /\ req[r].tx.txn = <<>>)
             => Cardinality(TransactionsOf(req[r].sid)) = 1

\* a second checkout of a settled session has been refused
SecondCheckoutRefused ==
    \E r \in Requests :
        /\ req[r].pc = "co_rollback"
        /\ req[r].tx.txn = <<>>
        /\ Cardinality(TransactionsOf(req[r].sid)) = 1
        /\ sessions[req[r].sid].status = "COMPLETED"

\* C6 (as stated): whenever a step inside the checkout unit has failed, the
\* session of the request is still ACTIVE with no exit time.
FailedCheckoutLeavesSessionActive ==
    \A r \in Requests :
        req[r].pc = "co_rollback"
           => /\ sessions[req[r].sid].status = "ACTIVE"
              /\ ~sessions[req[r].sid].exit_time

\* C6 (amended): a checkout whose unit has failed ends without changing any
\* row: no Transaction, TransactionItem, FaceRecognitionLog, LoyaltyProgram,
\* LoyaltyTransaction or AuditLog row appears, no inventory quantity and no
\* session changes; the session is ACTIVE with no exit time unless another
\* checkout of the same session has committed.
FailedCheckoutChangesNothing ==
    /\ [][\A r \in Requests :
            (req[r].pc = "co_rollback" /\ req'[r].pc = "idle") => UNCHANGED db]_vars
    /\ [](\A r \in Requests :
            (req[r].pc = "co_rollback" /\ TransactionsOf(req[r].sid) = {})
               => /\ sessions[req[r].sid].status = "ACTIVE"
                  /\ ~sessions[req[r].sid].exit_time)

\* a checkout has failed after it had issued statements inside the unit
FailedInsideUnit ==
    \E r \in Requests :
        /\ req[r].pc = "co_rollback"
        /\ req[r].tx.txn # <<>>
        /\ req[r].tx.items # <<>>
        /\ req[r].tx.stock # <<>>

\* C7: a checkout goes past the session lookup only as a POST for a session
\* that is ACTIVE and owned by the requesting user, past exists() only with a
\* non-empty cart, and no Transaction, TransactionItem, StoreInventory,
\* ShoppingSession, LoyaltyProgram or LoyaltyTransaction row is changed by a
\* checkout that has not passed both.
CheckoutNeedsPreconditions ==
    [][\A r \in Requests :
         /\ (req[r].pc = "idle" /\ req'[r].pc = "co_exists")
               => /\ req'[r].sid \in Indices(sessions)
                  /\ sessions[req'[r].sid].user = req'[r].user
                  /\ sessions[req'[r].sid].status = "ACTIVE"
                  /\ req'[r].method = "POST"
                  /\ UNCHANGED db
         /\ (req[r].pc = "co_exists" /\ req'[r].pc = "co_totals")
               => /\ \E p \in Products : cart[req[r].sid][p].quantity > 0
                  /\ UNCHANGED db
         /\ (req[r].pc = "co_exists" /\ req'[r].pc = "idle")
               => UNCHANGED db
         /\ (req[r].pc \in {"co_totals", "co_insert", "co_stock"} /\ req'[r] # req[r])
               => UNCHANGED db
         /\ (req[r].pc \notin CommitPcs /\ req'[r] # req[r])
               => /\ UNCHANGED <<transactions, items, inventory, loyalty_txns>>
                  /\ \A s \in Indices(sessions) : sessions'[s] = sessions[s]
                  /\ \A i \in Indices(loyalty) : loyalty'[i] = loyalty[i]]_vars

\* a checkout POST has found its session and is about to find the cart empty
CheckoutOfEmptyCart ==
    \E r \in Requests :
        /\ req[r].pc = "co_exists"
        /\ \A p \in Products : cart[req[r].sid][p].quantity = 0

\* C8: the step that commits a checkout with cart lines L leaves the session
\* COMPLETED with an exit time, the Transaction COMPLETED with completed_at,
\* exactly one TransactionItem per line of L with its product, quantity and
\* unit_price, every matching StoreInventory.quantity lower by the line's
\* quantity, and exactly one EARN LoyaltyTransaction linked to the
\* Transaction; no committed Transaction is PENDING.
CheckoutPostState ==
    /\ [][\A r \in Requests :
            (req[r].pc \in CommitPcs /\ req'[r].pc = "idle")
               => LET f == req[r]
                      tid == Len(transactions') IN
                  /\ Len(transactions') = Len(transactions) + 1
                  /\ transactions'[tid].session = f.sid
                  /\ transactions'[tid].status = "COMPLETED"
                  /\ transactions'[tid].completed_at
                  /\ sessions'[f.sid].status = "COMPLETED"
                  /\ sessions'[f.sid].exit_time
                  /\ Len(items') = Len(items) + Cardinality(DOMAIN f.lines)
                  /\ \A p \in DOMAIN f.lines :
                        /\ Cardinality({i \in Indices(items') :
                              /\ items'[i].transaction = tid
                              /\ items'[i].product = p
                              /\ items'[i].quantity = f.lines[p].quantity
                              /\ items'[i].unit_price = f.lines[p].unit_price}) = 1
                        /\ inventory'[p] = inventory[p] - f.lines[p].quantity
                  /\ Len(loyalty_txns') = Len(loyalty_txns) + 1
                  /\ loyalty_txns'[Len(loyalty_txns')].related_transaction = tid
                  /\ loyalty_txns'[Len(loyalty_txns')].transaction_type = "EARN"]_vars
    /\ [](\A t \in Indices(transactions) : transactions[t].status # "PENDING")

\* C9: no inventory decrement is lost: the quantity of every product is its
\* seeded quantity minus the quantities of all committed transaction items.
NoDecrementLost ==
    \A p \in DOMAIN inventory : inventory[p] = InitStock[p] - SoldQuantity(p)

\* C10: a session never has more than one Transaction, and a Transaction
\* row appears only in the committing step of a checkout of its session.
OneTransactionPerSession ==
    /\ [](\A s \in SessionIds :
            Cardinality({t \in Indices(transactions) :
                           transactions[t].session = s}) <= 1)
    /\ [][transactions' # transactions
            => \E r \in Requests :
                  /\ req[r].pc \in CommitPcs
                  /\ req'[r].pc = "idle"
                  /\ Len(transactions') = Len(transactions) + 1
                  /\ SubSeq(transactions', 1, Len(transactions)) = transactions
                  /\ transactions'[Len(transactions')].session = req[r].sid
                  /\ transactions'[Len(transactions')].user = sessions[req[r].sid].user]_vars

\* both sessions have been settled, each with its own Transaction
BothSessionsSettled ==
    /\ Len(transactions) = 2
    /\ transactions[1].session # transactions[2].session

\* C18: the request handlers only append to FaceRecognitionLog and AuditLog:
\* no step removes or changes a row of either; a start_shopping_session that
\* creates its session appends exactly one ENTRY row and one CREATE row for
\* that session, a checkout that commits appends exactly one CHECKOUT row and
\* one PAYMENT row for its Transaction, and no other step of these handlers
\* appends to either table.
LogsAppendOnly ==
    [][/\ fr_log \subseteq fr_log'
       /\ audit_log \subseteq audit_log'
       /\ \A r \in Requests :
             (req[r].pc = "ss_create" /\ req'[r].pc = "idle")
                => /\ Len(sessions') = Len(sessions) + 1
                   /\ fr_log' \ fr_log =
                         {[user |-> req[r].user, recognition_type |-> "ENTRY",
                           session |-> Len(sessions'), transaction |-> 0]}
                   /\ audit_log' \ audit_log =
                         {[user |-> req[r].user, action |-> "CREATE",
                           model_name |-> "ShoppingSession",
                           object_id |-> Len(sessions')]}
       /\ \A r \in Requests :
             (req[r].pc \in CommitPcs /\ req'[r].pc = "idle")
                => /\ Len(transactions') = Len(transactions) + 1
                   /\ fr_log' \ fr_log =
                         {[user |-> req[r].user, recognition_type |-> "CHECKOUT",
                           session |-> req[r].sid,
                           transaction |-> Len(transactions')]}
                   /\ audit_log' \ audit_log =
                         {[user |-> req[r].user, action |-> "PAYMENT",
                           model_name |-> "Transaction",
                           object_id |-> Len(transactions')]}
       /\ (fr_log' # fr_log \/ audit_log' # audit_log)
             => \E r \in Requests :
                   /\ req[r].pc \in CommitPcs \cup {"ss_create"}
                   /\ req'[r].pc = "idle"]_vars

\* a session has been started and settled, each with its two log rows
CheckoutLogged ==
    /\ \E l \in fr_log : l.recognition_type = "ENTRY"
    /\ \E l \in fr_log : l.recognition_type = "CHECKOUT" /\ l.transaction # 0
    /\ \E a \in audit_log : a.action = "CREATE"
    /\ \E a \in audit_log : a.action = "PAYMENT"

\* C19: every Transaction is settled with a payment account that belongs to
\* the user of the Transaction, is active and is verified.
SettledWithVerifiedOwnAccount ==
    \A t \in Indices(transactions) :
        LET a == transactions[t].payment_account IN
        /\ a \in DOMAIN accounts
        /\ accounts[a].user = transactions[t].user
        /\ accounts[a].is_active
        /\ accounts[a].is_verified

\* C20: the cart of a session changes only while the session is ACTIVE.
CartChangesOnlyWhileActive ==
    [][\A s \in SessionIds :
          cart'[s] # cart[s]
             => /\ s \in Indices(sessions)
                /\ sessions[s].status = "ACTIVE"]_vars

LedgerOf(i) == {j \in Indices(loyalty_txns) : loyalty_txns[j].loyalty_program = i}

LedgerSum(i, type) ==
    LET S == {j \in LedgerOf(i) : loyalty_txns[j].transaction_type = type} IN
    SumSet(S, [j \in S |-> loyalty_txns[j].points])

\* C14: the balance of every LoyaltyProgram is backed by its ledger: it is the
\* sum of the points of its EARN rows minus the sum of its REDEEM rows, and it
\* is the balance_after of its most recently appended row.
BalanceBackedByLedger ==
    \A i \in Indices(loyalty) :
        /\ loyalty[i].current_balance = LedgerSum(i, "EARN") - LedgerSum(i, "REDEEM")
        /\ LedgerOf(i) # {}
              => LET last == CHOOSE j \in LedgerOf(i) : \A k \in LedgerOf(i) : k <= j IN
                 loyalty[i].current_balance = loyalty_txns[last].balance_after

\* ======================================================================
\* Repricing: the catalogue is edited in the admin while customers shop
\* ======================================================================
\* what the admin sets a product to: 50.86, a price of the range seed_products
\* draws from, at the two VAT rates of the catalogue
Repricings == {[price |-> 5086, vat_rate |-> 1600], [price |-> 5086, vat_rate |-> 0]}

\* TransactionItem rows that read price and rate through their product
ItemsFollowProduct(its, p, price, vat_rate) ==
    [i \in Indices(its) |->
        IF its[i].product = p
        THEN [its[i] EXCEPT !.unit_price = price, !.vat_rate = vat_rate]
        ELSE its[i]]

\* TransactionItem.unit_price, vat_rate, subtotal, vat_amount and total are
\* columns of the row: saving a Product writes no TransactionItem
ItemsAfterProductSave(its, p, price, vat_rate) == its

\* ProductAdmin: the fieldset Pricing is editable, the Product row is saved
ChangePrice(p, price, vat_rate) ==
    /\ <<products[p].price, products[p].vat_rate>> # <<price, vat_rate>>
    /\ products' = [products EXCEPT ![p].price = price, ![p].vat_rate = vat_rate]
    /\ items' = ItemsAfterProductSave(items, p, price, vat_rate)
    /\ UNCHANGED <<sessions, cart, inventory, transactions, loyalty, loyalty_txns,
                   fr_log, audit_log, accounts, facial, custom_users, cart_rows, req>>

\* one request at a time in a store that stocks product 2
InitRepricing == InitDeployed([workers |-> {1}, stocked |-> {2}])

\* with one request at a time no checkout unit fails: CoRollback has no state
\* to act on
NextRepricing ==
    \/ \E r \in Requests : StartShoppingSession(r)
    \/ \E r \in Requests : SsCreate(r)
    \/ \E u \in Users, sid \in SessionIds, p \in Products : add_to_cart(u, sid, p)
    \/ \E u \in Users, sid \in SessionIds, p \in Products, q \in 0..MaxQty :
          update_cart_item(u, sid, p, q)
    \/ \E u \in Users, sid \in SessionIds, p \in Products : remove_from_cart(u, sid, p)
    \/ \E r \in Requests : LoyaltyDashboard(r)
    \/ \E r \in Requests : LdCreate(r)
    \/ \E r \in Requests : Checkout(r)
    \/ \E r \in Requests : CoCartExists(r)
    \/ \E r \in Requests : CoTotals(r)
    \/ \E r \in Requests : CoInsertTransaction(r)
    \/ \E r \in Requests : CoStock(r)
    \/ \E r \in Requests : CoCreateLoyalty(r)
    \/ \E r \in Requests : CoCommit(r)
    \/ \E p \in Products, n \in Repricings : ChangePrice(p, n.price, n.vat_rate)

SpecRepricing == InitRepricing /\ [][NextRepricing]_vars

\* the amounts of a Transaction row
Amounts(row) == <<row.subtotal, row.vat_amount, row.discount_amount, row.total_amount>>

\* C12: once a checkout has committed, no later step (cart changes of its
\* session, later checkouts, changes of Product.price or Product.vat_rate)
\* changes a TransactionItem row or the amounts of a Transaction: rows are
\* only appended.
ItemsAreSnapshot ==
    [][/\ Len(items') >= Len(items)
       /\ \A i \in Indices(items) : items'[i] = items[i]
       /\ Len(transactions') >= Len(transactions)
       /\ \A t \in Indices(transactions) :
             Amounts(transactions'[t]) = Amounts(transactions[t])]_vars

\* two sales of one product hold different prices and rates: the first one
\* was followed by a repricing of the product, by the removal of its line
\* from the cart of its session and by a later checkout
SoldAtTwoPrices ==
    \E i, j \in Indices(items) :
        /\ items[i].product = items[j].product
        /\ items[i].transaction < items[j].transaction
        /\ items[i].unit_price # items[j].unit_price
        /\ items[i].vat_rate # items[j].vat_rate
        /\ products[items[i].product].price # items[i].unit_price
        /\ cart[transactions[items[i].transaction].session][items[i].product].quantity = 0

\* the whole-number part of an amount kept in cents
WholeUnits(cents) == cents \div (UnitMicro \div CentMicro)

\* C13: each completed checkout awards 1 point per unit of currency: the EARN
\* row of a Transaction has points equal to the whole-number part of the
\* Transaction's total_amount; the committing step raises total_points_earned
\* and current_balance of the user's program by exactly that number, and
\* balance_after of the appended row is the program's balance after the step.
PointsAreWholeTotal ==
    /\ [](\A j \in Indices(loyalty_txns) :
            loyalty_txns[j].related_transaction \in Indices(transactions)
               => /\ loyalty_txns[j].transaction_type = "EARN"
                  /\ loyalty_txns[j].points =
                        WholeUnits(transactions[loyalty_txns[j].related_transaction].total_amount))
    /\ [][\A r \in Requests :
            (req[r].pc \in CommitPcs /\ req'[r].pc = "idle")
               => LET row == loyalty_txns'[Len(loyalty_txns')]
                      i == row.loyalty_program
                      was == IF i \in Indices(loyalty) THEN loyalty[i]
                             ELSE NewLoyaltyProgram(req[r].user) IN
                  /\ Len(loyalty_txns') = Len(loyalty_txns) + 1
                  /\ loyalty'[i].user = req[r].user
                  /\ loyalty'[i].total_points_earned = was.total_points_earned + row.points
                  /\ loyalty'[i].current_balance = was.current_balance + row.points
                  /\ row.balance_after = loyalty'[i].current_balance]_vars

\* ======================================================================
\* The cart handlers statement by statement, over ShoppingCart rows
\* ======================================================================
\* the largest quantity of a cart line
MaxCartQty == 2

\* the ids a ShoppingCart row can take, in the order they are handed out
CartRowIds == {1, 2}

\* ids a request can name: those of the catalogue, the cart rows and the
\* accounts, and one id past each that no row has
LookupProducts == Products \cup {Cardinality(Products) + 1}
LookupItems == CartRowIds \cup {Cardinality(CartRowIds) + 1}
LookupAccounts == Accounts \cup {Cardinality(Accounts) + 1}

CartRow(sid, p, quantity, unit_price) ==
    [session |-> sid, product |-> p, quantity |-> quantity,
     unit_price |-> unit_price, deleted |-> FALSE]

\* a deleted row keeps its place, so that ids are never handed out twice
LiveRows(rows) == {i \in Indices(rows) : ~rows[i].deleted}

LinesOf(rows, sid, p) ==
    {i \in LiveRows(rows) : rows[i].session = sid /\ rows[i].product = p}

\* ShoppingCart.objects.filter(session=session): the rows as the checkout
\* handler reads them
CartView(rows) ==
    [s \in SessionIds |-> [p \in Products |->
        IF LinesOf(rows, s, p) = {} THEN NoLine
        ELSE [quantity |-> rows[Min(LinesOf(rows, s, p))].quantity,
              unit_price |-> rows[Min(LinesOf(rows, s, p))].unit_price]]]

\* seed_shopping_sessions, seed_shopping_carts: a COMPLETED session of u1 with
\* a line of the stocked product
SeedSessions == <<[user |-> "u1", status |-> "COMPLETED", exit_time |-> TRUE]>>
SeedCartRows == <<CartRow(1, 2, 1, ProductPrice[2])>>

InitSeeded(workers) ==
    /\ products = SeedProducts
    /\ accounts = SeedAccounts
    /\ facial = SeedFacialData
    /\ custom_users = SeedUsers
    /\ cart_rows = SeedCartRows
    /\ sessions = SeedSessions
    /\ cart = CartView(SeedCartRows)
    /\ inventory = [p \in {2} |-> InitStock[p]]
    /\ req = [r \in workers |-> Idle]
    /\ transactions = <<>>
    /\ items = <<>>
    /\ loyalty = <<SeedLoyaltyProgram("u1", SeedPoints, SeedRedeemed(SeedPoints))>>
    /\ loyalty_txns = SeedLoyaltyTransactions(1, SeedPoints)
    /\ fr_log = {}
    /\ audit_log = {}

\* the tables the cart handlers leave alone
cart_frame == <<sessions, inventory, transactions, items, loyalty, loyalty_txns,
                fr_log, audit_log, products, accounts, facial, custom_users>>

SetCartRows(rows) == cart_rows' = rows /\ cart' = CartView(rows)

\* get_object_or_404(Product, id=product_id, is_active=True)
ProductFound(p) == p \in DOMAIN products /\ products[p].is_active

\* no inventory check before the line is written
InStockUnchecked(p) == TRUE

\* StoreInventory.objects.filter(store, product, is_available=True).first()
\* and its quantity
InStock(p) == p \in DOMAIN inventory /\ inventory[p] > 0

\* get_object_or_404(ShoppingCart, id=cart_item_id) without the session
CartItemFoundAnySession(i, sid) == i \in LiveRows(cart_rows)

\* get_object_or_404(ShoppingCart, id=cart_item_id, session=session)
CartItemFound(i, sid) == i \in LiveRows(cart_rows) /\ cart_rows[i].session = sid

\* unique_together = ['session', 'product']
CartInsertOk(sid, p) == LinesOf(cart_rows, sid, p) = {}

\* ------------------------------------------------------------ add_to_cart
AddToCart(r) ==
    /\ req[r].pc = "idle"
    /\ \E u \in Users, sid \in SessionIds, p \in LookupProducts :
          Goto(r, [Idle EXCEPT !.pc = "ac_lookup", !.user = u, !.sid = sid, !.cur = p])
    /\ UNCHANGED db

\* the two lookups and the inventory check
AcLookup(r) ==
    /\ req[r].pc = "ac_lookup"
    /\ IF /\ SessionFound(req[r].sid, req[r].user, TRUE)
          /\ ProductFound(req[r].cur)
          /\ InStock(req[r].cur)
       THEN Goto(r, [req[r] EXCEPT !.pc = "ac_get",
                                   !.price = products[req[r].cur].price])
       ELSE Finish(r)
    /\ UNCHANGED db

\* get_or_create: the SELECT
AcGet(r) ==
    /\ req[r].pc = "ac_get"
    /\ LET L == LinesOf(cart_rows, req[r].sid, req[r].cur) IN
       IF L # {}
       THEN Goto(r, [req[r] EXCEPT !.pc = "ac_save", !.item = Min(L),
                                   !.read = cart_rows[Min(L)].quantity])
       ELSE Goto(r, [req[r] EXCEPT !.pc = "ac_insert"])
    /\ UNCHANGED db

\* get_or_create: the INSERT with the defaults; on IntegrityError the row
\* that is there is fetched
AcInsert(r) ==
    /\ req[r].pc = "ac_insert"
    /\ IF CartInsertOk(req[r].sid, req[r].cur)
       THEN /\ Len(cart_rows) + 1 \in CartRowIds
            /\ SetCartRows(Append(cart_rows,
                              CartRow(req[r].sid, req[r].cur, 1, req[r].price)))
            /\ Finish(r)
       ELSE LET L == LinesOf(cart_rows, req[r].sid, req[r].cur) IN
            /\ Goto(r, [req[r] EXCEPT !.pc = "ac_save", !.item = Min(L),
                                      !.read = cart_rows[Min(L)].quantity])
            /\ UNCHANGED <<cart, cart_rows>>
    /\ UNCHANGED cart_frame

\* cart_item.quantity += 1; cart_item.save(): an UPDATE of the row by its id,
\* and an INSERT under the same id when the row has been deleted meanwhile
AcSave(r) ==
    /\ req[r].pc = "ac_save"
    /\ req[r].read < MaxCartQty
    /\ LET i == req[r].item
           row == [cart_rows[i] EXCEPT !.quantity = req[r].read + 1,
                                       !.deleted = FALSE] IN
       IF i \in LiveRows(cart_rows) \/ CartInsertOk(req[r].sid, req[r].cur)
       THEN SetCartRows([cart_rows EXCEPT ![i] = row])
       ELSE UNCHANGED <<cart, cart_rows>>
    /\ Finish(r)
    /\ UNCHANGED cart_frame

\* ------------------------------------------------------- update_cart_item
\* cart_item.quantity = quantity; cart_item.save() whatever the quantity
SubmitQuantityUnchecked(row, quantity) == [row EXCEPT !.quantity = quantity]

\* if quantity <= 0: cart_item.delete() else: cart_item.quantity = quantity;
\* cart_item.save()
SubmitQuantity(row, quantity) ==
    IF quantity <= 0 THEN [row EXCEPT !.deleted = TRUE]
    ELSE [row EXCEPT !.quantity = quantity]

\* the request arrives: only a POST carries a quantity
UpdateCartItem(r) ==
    /\ req[r].pc = "idle"
    /\ \E u \in Users, sid \in SessionIds, i \in LookupItems,
          method \in {"GET", "POST"} :
          \E quantity \in IF IsPost(method) THEN (-1)..MaxCartQty ELSE {1} :
             Goto(r, [Idle EXCEPT !.pc = "uc_lookup", !.user = u, !.sid = sid,
                                  !.item = i, !.quantity = quantity,
                                  !.method = method])
    /\ UNCHANGED db

\* the two lookups, then for a POST: delete() or quantity = ...; save()
UcLookup(r) ==
    /\ req[r].pc = "uc_lookup"
    /\ IF /\ SessionFound(req[r].sid, req[r].user, FALSE)
          /\ CartItemFound(req[r].item, req[r].sid)
          /\ IsPost(req[r].method)
       THEN SetCartRows([cart_rows EXCEPT ![req[r].item] =
                                SubmitQuantity(@, req[r].quantity)])
       ELSE UNCHANGED <<cart, cart_rows>>
    /\ Finish(r)
    /\ UNCHANGED cart_frame

\* ------------------------------------------------------- remove_from_cart
RemoveFromCart(r) ==
    /\ req[r].pc = "idle"
    /\ \E u \in Users, sid \in SessionIds, i \in LookupItems :
          Goto(r, [Idle EXCEPT !.pc = "rc_lookup", !.user = u, !.sid = sid,
                               !.item = i])
    /\ UNCHANGED db

\* the two lookups, then cart_item.delete()
RcLookup(r) ==
    /\ req[r].pc = "rc_lookup"
    /\ IF /\ SessionFound(req[r].sid, req[r].user, FALSE)
          /\ CartItemFound(req[r].item, req[r].sid)
       THEN SetCartRows([cart_rows EXCEPT ![req[r].item].deleted = TRUE])
       ELSE UNCHANGED <<cart, cart_rows>>
    /\ Finish(r)
    /\ UNCHANGED cart_frame

\* ------------------------------------------------------- shopping_session
ShoppingSessionView(r) ==
    /\ req[r].pc = "idle"
    /\ \E u \in Users, sid \in SessionIds :
          Goto(r, [Idle EXCEPT !.pc = "sv_lookup", !.user = u, !.sid = sid])
    /\ UNCHANGED db

\* get_object_or_404(ShoppingSession, id, user), then the page is rendered
SvLookup(r) ==
    /\ req[r].pc = "sv_lookup"
    /\ Finish(r)
    /\ UNCHANGED db

\* ----------------------------------------------------- transaction_detail
TransactionDetail(r) ==
    /\ req[r].pc = "idle"
    /\ \E u \in Users, t \in SessionIds :
          Goto(r, [Idle EXCEPT !.pc = "td_lookup", !.user = u, !.item = t])
    /\ UNCHANGED db

\* get_object_or_404(Transaction, id, user), then the page is rendered
TdLookup(r) ==
    /\ req[r].pc = "td_lookup"
    /\ Finish(r)
    /\ UNCHANGED db

\* ------------------------------------------------- delete_payment_account
\* get_object_or_404(PaymentAccount, id=account_id) without the user
OwnAccountFoundAnyUser(a, u) == a \in DOMAIN accounts

\* get_object_or_404(PaymentAccount, id=account_id, user=request.user)
OwnAccountFound(a, u) == a \in DOMAIN accounts /\ accounts[a].user = u

\* Transaction.payment_account: on_delete=PROTECT
AccountProtected(a) ==
    \E t \in Indices(transactions) : transactions[t].payment_account = a

DeletePaymentAccount(r) ==
    /\ req[r].pc = "idle"
    /\ \E u \in Users, a \in LookupAccounts, method \in {"GET", "POST"} :
          Goto(r, [Idle EXCEPT !.pc = "dp_lookup", !.user = u, !.account = a,
                               !.method = method])
    /\ UNCHANGED db

\* the lookup, then for a POST: log_audit(...) and account.delete()
DpLookup(r) ==
    /\ req[r].pc = "dp_lookup"
    /\ LET a == req[r].account IN
       IF OwnAccountFound(a, req[r].user) /\ IsPost(req[r].method)
       THEN /\ audit_log' = audit_log \cup
                   {AuditRow(req[r].user, "DELETE", "PaymentAccount", a)}
            /\ accounts' = IF AccountProtected(a) THEN accounts
                           ELSE [b \in DOMAIN accounts \ {a} |-> accounts[b]]
       ELSE UNCHANGED <<audit_log, accounts>>
    /\ Finish(r)
    /\ UNCHANGED <<sessions, cart, inventory, transactions, items, loyalty,
                   loyalty_txns, fr_log, products, facial, custom_users, cart_rows>>

\* ProductAdmin: is_active is editable
DeactivateProduct(p) ==
    /\ products[p].is_active
    /\ products' = [products EXCEPT ![p].is_active = FALSE]
    /\ UNCHANGED <<sessions, cart, inventory, transactions, items, loyalty,
                   loyalty_txns, fr_log, audit_log, accounts, facial,
                   custom_users, cart_rows, req>>

\* two requests at a time that add lines to the carts and remove them
NextCart ==
    \/ \E r \in Requests : StartShoppingSession(r)
    \/ \E r \in Requests : SsCreate(r)
    \/ \E r \in Requests : AddToCart(r)
    \/ \E r \in Requests : AcLookup(r)
    \/ \E r \in Requests : AcGet(r)
    \/ \E r \in Requests : AcInsert(r)
    \/ \E r \in Requests : AcSave(r)
    \/ \E r \in Requests : RemoveFromCart(r)
    \/ \E r \in Requests : RcLookup(r)

InitCart == InitSeeded({1, 2})

SpecCart == InitCart /\ [][NextCart]_vars

\* one request at a time on every handler that looks a record up; no checkout
\* unit fails then, and CoRollback has no state to act on
NextLookup ==
    \/ \E r \in Requests : StartShoppingSession(r)
    \/ \E r \in Requests : SsCreate(r)
    \/ \E r \in Requests : AddToCart(r)
    \/ \E r \in Requests : AcLookup(r)
    \/ \E r \in Requests : AcGet(r)
    \/ \E r \in Requests : AcInsert(r)
    \/ \E r \in Requests : AcSave(r)
    \/ \E r \in Requests : UpdateCartItem(r)
    \/ \E r \in Requests : UcLookup(r)
    \/ \E r \in Requests : RemoveFromCart(r)
    \/ \E r \in Requests : RcLookup(r)
    \/ \E r \in Requests : ShoppingSessionView(r)
    \/ \E r \in Requests : SvLookup(r)
    \/ \E r \in Requests : TransactionDetail(r)
    \/ \E r \in Requests : TdLookup(r)
    \/ \E r \in Requests : DeletePaymentAccount(r)
    \/ \E r \in Requests : DpLookup(r)
    \/ \E p \in Products : DeactivateProduct(p)
    \/ \E r \in Requests : Checkout(r)
    \/ \E r \in Requests : CoCartExists(r)
    \/ \E r \in Requests : CoTotals(r)
    \/ \E r \in Requests : CoInsertTransaction(r)
    \/ \E r \in Requests : CoStock(r)
    \/ \E r \in Requests : CoCreateLoyalty(r)
    \/ \E r \in Requests : CoCommit(r)

InitLookup == InitSeeded({1})

SpecLookup == InitLookup /\ [][NextLookup]_vars

\* at most one ShoppingCart line per session and product
OneLinePerProduct ==
    \A s \in SessionIds, p \in Products : Cardinality(LinesOf(cart_rows, s, p)) <= 1

\* C11: a cart holds at most one line per product in every state, and an
\* add_to_cart that completes leaves the cart as the claim says: for a product
\* already in the cart the line's quantity is higher by 1 and its unit_price
\* kept, for a product not in the cart there is a line with quantity 1 and
\* unit_price equal to the product's price.
AddToCartMergesLines ==
    /\ []OneLinePerProduct
    /\ [][\A r \in Requests :
            (req[r].pc \in {"ac_insert", "ac_save"} /\ req'[r].pc = "idle")
               => LET was == cart[req[r].sid][req[r].cur]
                      now == cart'[req[r].sid][req[r].cur] IN
                  IF was.quantity > 0
                  THEN /\ now.quantity = was.quantity + 1
                       /\ now.unit_price = was.unit_price
                  ELSE /\ now.quantity = 1
                       /\ now.unit_price = products[req[r].cur].price]_vars

\* C17: a lookup of a missing record ends the request with nothing changed:
\* shopping_session, add_to_cart, update_cart_item, remove_from_cart,
\* transaction_detail and delete_payment_account, given an id that does not
\* exist or belongs to another user (for add_to_cart also a session that is
\* not ACTIVE or a product that is not active), end at their lookup and leave
\* every row as it was; a checkout passes its session lookup only for an
\* ACTIVE session of the user and its account lookup only for an active
\* account of the user, and changes no row otherwise.
LookupMissesChangeNothing ==
    [][\A r \in Requests :
         LET f == req[r]
             own == /\ f.sid \in Indices(sessions)
                    /\ sessions[f.sid].user = f.user
             ownItem == /\ own
                        /\ f.item \in Indices(cart_rows)
                        /\ ~cart_rows[f.item].deleted
                        /\ cart_rows[f.item].session = f.sid
             miss ==
                \/ f.pc = "sv_lookup" /\ ~own
                \/ /\ f.pc = "ac_lookup"
                   /\ ~(/\ own
                        /\ sessions[f.sid].status = "ACTIVE"
                        /\ f.cur \in DOMAIN products
                        /\ products[f.cur].is_active)
                \/ f.pc \in {"uc_lookup", "rc_lookup"} /\ ~ownItem
                \/ /\ f.pc = "td_lookup"
                   /\ ~(/\ f.item \in Indices(transactions)
                        /\ transactions[f.item].user = f.user)
                \/ /\ f.pc = "dp_lookup"
                   /\ ~(/\ f.account \in DOMAIN accounts
                        /\ accounts[f.account].user = f.user) IN
         /\ (miss /\ req'[r] # f) => (req'[r] = Idle /\ UNCHANGED db)
         /\ (f.pc = "idle" /\ req'[r].pc = "co_exists")
               => /\ req'[r].sid \in Indices(sessions)
                  /\ sessions[req'[r].sid].user = req'[r].user
                  /\ sessions[req'[r].sid].status = "ACTIVE"
                  /\ UNCHANGED db
         /\ (f.pc = "co_totals" /\ req'[r].pc = "co_insert")
               => /\ req'[r].account \in DOMAIN accounts
                  /\ accounts[req'[r].account].user = f.user
                  /\ accounts[req'[r].account].is_active
         /\ (f.pc = "co_totals" /\ req'[r] # f) => UNCHANGED db]_vars

\* a request of a user for their own session is about to look up a cart line
\* of another user's session, after a checkout has committed
ForeignLineLookedUp ==
    \E r \in Requests :
        /\ req[r].pc \in {"uc_lookup", "rc_lookup"}
        /\ req[r].sid \in Indices(sessions)
        /\ sessions[req[r].sid].user = req[r].user
        /\ req[r].item \in LiveRows(cart_rows)
        /\ cart_rows[req[r].item].session # req[r].sid
        /\ transactions # <<>>

\* ======================================================================
\* Registration
\* ======================================================================
\* what a register form is filled in with: names, addresses and numbers of
\* the seeded users and new ones
FormUsernames == {"u1", "u3", "u4"}
FormEmails == {"u1@example.com", "u3@Example.com", "u3@example.com"}
FormPhones == {"+254u1", "+254u3", "+254u4"}

\* BaseUserManager.normalize_email, called by create_user: the domain part of
\* the address is lowercased
NormalizeEmail(email) ==
    IF email = "u3@Example.com" THEN "u3@example.com" ELSE email

\* CustomUser.objects.filter(<field>=value).exists()
UsernameExists(username) == \E c \in custom_users : c.username = username
EmailExists(email) == \E c \in custom_users : c.email = email
PhoneExists(phone_number) == \E c \in custom_users : c.phone_number = phone_number

\* the unique indexes of CustomUser: username and phone_number
UserInsertOk(username, phone_number) ==
    ~UsernameExists(username) /\ ~PhoneExists(phone_number)

\* a register POST arrives
Register(r) ==
    /\ req[r].pc = "idle"
    /\ \E username \in FormUsernames, email \in FormEmails,
          phone_number \in FormPhones, confirmed \in BOOLEAN :
          Goto(r, [Idle EXCEPT !.pc = "rg_validate",
                               !.form = [username |-> username, email |-> email,
                                         phone_number |-> phone_number,
                                         confirmed |-> confirmed]])
    /\ UNCHANGED db

\* password != password_confirm, then the three exists() checks
RgValidate(r) ==
    /\ req[r].pc = "rg_validate"
    /\ LET f == req[r].form IN
       IF /\ f.confirmed
          /\ ~UsernameExists(f.username)
          /\ ~EmailExists(f.email)
          /\ ~PhoneExists(f.phone_number)
       THEN Goto(r, [req[r] EXCEPT !.pc = "rg_create"])
       ELSE Finish(r)
    /\ UNCHANGED db

\* CustomUser.objects.create_user(...), then log_audit(user, 'CREATE', ...)
RgCreate(r) ==
    /\ req[r].pc = "rg_create"
    /\ LET f == req[r].form IN
       IF UserInsertOk(f.username, f.phone_number)
       THEN /\ custom_users' = custom_users \cup
                   {[username |-> f.username, email |-> NormalizeEmail(f.email),
                     phone_number |-> f.phone_number]}
            /\ audit_log' = audit_log \cup
                   {AuditRow(f.username, "CREATE", "CustomUser", f.username)}
       ELSE UNCHANGED <<custom_users, audit_log>>
    /\ Finish(r)
    /\ UNCHANGED <<sessions, cart, inventory, transactions, items, loyalty,
                   loyalty_txns, fr_log, products, accounts, facial, cart_rows>>

NextRegister ==
    \/ \E r \in Requests : Register(r)
    \/ \E r \in Requests : RgValidate(r)
    \/ \E r \in Requests : RgCreate(r)

\* one register request after the other
InitRegister == InitDeployed([workers |-> {1}, stocked |-> {1, 2}])

SpecRegister == InitRegister /\ [][NextRegister]_vars

\* C16: a register POST whose username, email or phone number is that of an
\* existing user, or whose password and confirmation differ, creates no
\* CustomUser and no AuditLog row and ends with the form; and no two users
\* share a username, an email or a phone number.
RegisterRejectsDuplicates ==
    /\ [][\A r \in Requests :
            LET f == req[r].form IN
            (/\ req[r].pc = "rg_validate"
             /\ req'[r] # req[r]
             /\ \/ ~f.confirmed
                \/ \E c \in custom_users :
                      \/ c.username = f.username
                      \/ c.email = f.email
                      \/ c.phone_number = f.phone_number)
               => (req'[r] = Idle /\ UNCHANGED db)]_vars
    /\ [](\A c, d \in custom_users :
            c # d => /\ c.username # d.username
                     /\ c.email # d.email
                     /\ c.phone_number # d.phone_number)

\* ======================================================================
\* Face registration and the loyalty program of a user
\* ======================================================================
\* the ids a FacialData row can take, in the order they are handed out
FacialIds == {1, 2, 3}

\* the rows of a user that have not been deleted
FacesOf(u) == {i \in Indices(facial) : ~facial[i].deleted /\ facial[i].user = u}

\* select_for_update(): the row is locked until the block of update_or_create
\* ends
FaceLocked(r, i) ==
    \E o \in Requests \ {r} : req[o].pc = "fr_update" /\ req[o].item = i

\* the unique index of FacialData.user (OneToOneField)
FaceInsertOk(u) == FacesOf(u) = {}

\* face_registration: a POST without an image changes nothing
FaceRegistration(r) ==
    /\ req[r].pc = "idle"
    /\ \E u \in Users, face_image \in BOOLEAN :
          IF face_image
          THEN Goto(r, [Idle EXCEPT !.pc = "fr_get", !.user = u])
          ELSE UNCHANGED req
    /\ UNCHANGED db

\* update_or_create: select_for_update().get(user=...)
FrGet(r) ==
    /\ req[r].pc = "fr_get"
    /\ LET F == FacesOf(req[r].user) IN
       IF F # {}
       THEN /\ ~FaceLocked(r, Min(F))
            /\ Goto(r, [req[r] EXCEPT !.pc = "fr_update", !.item = Min(F)])
       ELSE Goto(r, [req[r] EXCEPT !.pc = "fr_insert"])
    /\ UNCHANGED db

\* update_or_create: the INSERT with the defaults, then
\* log_audit(user, 'CREATE', ...); on IntegrityError the row that is there is
\* fetched for update
FrInsert(r) ==
    /\ req[r].pc = "fr_insert"
    /\ LET u == req[r].user IN
       IF FaceInsertOk(u)
       THEN /\ Len(facial) + 1 \in FacialIds
            /\ facial' = Append(facial, FacialRow(u, 1))
            /\ audit_log' = audit_log \cup
                   {AuditRow(u, "CREATE", "FacialData", Len(facial) + 1)}
            /\ Finish(r)
       ELSE /\ ~FaceLocked(r, Min(FacesOf(u)))
            /\ Goto(r, [req[r] EXCEPT !.pc = "fr_update", !.item = Min(FacesOf(u))])
            /\ UNCHANGED <<facial, audit_log>>
    /\ UNCHANGED <<sessions, cart, inventory, transactions, items, loyalty,
                   loyalty_txns, fr_log, products, accounts, custom_users, cart_rows>>

\* update_or_create: the defaults are set on the row and it is saved, then
\* log_audit(user, 'UPDATE', ...)
FrUpdate(r) ==
    /\ req[r].pc = "fr_update"
    /\ facial' = [facial EXCEPT ![req[r].item].face_encoding = 1,
                                ![req[r].item].is_active = TRUE]
    /\ audit_log' = audit_log \cup
           {AuditRow(req[r].user, "UPDATE", "FacialData", req[r].item)}
    /\ Finish(r)
    /\ UNCHANGED <<sessions, cart, inventory, transactions, items, loyalty,
                   loyalty_txns, fr_log, products, accounts, custom_users, cart_rows>>

\* face_delete: request.user.facial_data.delete(), log_audit(user, 'DELETE', ...)
FaceDelete(r) ==
    /\ req[r].pc = "idle"
    /\ \E u \in Users :
          LET F == FacesOf(u) IN
          IF F # {}
          THEN /\ ~FaceLocked(r, Min(F))
               /\ facial' = [facial EXCEPT ![Min(F)].deleted = TRUE]
               /\ audit_log' = audit_log \cup {AuditRow(u, "DELETE", "FacialData", 0)}
          ELSE UNCHANGED <<facial, audit_log>>
    /\ UNCHANGED <<sessions, cart, inventory, transactions, items, loyalty,
                   loyalty_txns, fr_log, products, accounts, custom_users,
                   cart_rows, req>>

\* seed_shopping_sessions, seed_shopping_carts: an ACTIVE session of u2, who
\* has no LoyaltyProgram, with a line of the stocked product
InitIdentity ==
    /\ InitRest
    /\ sessions = <<[user |-> "u2", status |-> "ACTIVE", exit_time |-> FALSE]>>
    /\ cart = [s \in SessionIds |-> [p \in Products |->
                  IF s = 1 /\ p = 2
                  THEN [quantity |-> 1, unit_price |-> ProductPrice[p]]
                  ELSE NoLine]]
    /\ inventory = [p \in {2} |-> InitStock[p]]
    /\ req = [r \in {1, 2} |-> Idle]
    /\ transactions = <<>>
    /\ items = <<>>
    /\ loyalty = <<SeedLoyaltyProgram("u1", SeedPoints, SeedRedeemed(SeedPoints))>>
    /\ loyalty_txns = SeedLoyaltyTransactions(1, SeedPoints)
    /\ fr_log = {}
    /\ audit_log = {}

NextIdentity ==
    \/ \E r \in Requests : FaceRegistration(r)
    \/ \E r \in Requests : FrGet(r)
    \/ \E r \in Requests : FrInsert(r)
    \/ \E r \in Requests : FrUpdate(r)
    \/ \E r \in Requests : FaceDelete(r)
    \/ \E r \in Requests : LoyaltyDashboard(r)
    \/ \E r \in Requests : LdCreate(r)
    \/ \E r \in Requests : Checkout(r)
    \/ \E r \in Requests : CoCartExists(r)
    \/ \E r \in Requests : CoTotals(r)
    \/ \E r \in Requests : CoInsertTransaction(r)
    \/ \E r \in Requests : CoStock(r)
    \/ \E r \in Requests : CoCreateLoyalty(r)
    \/ \E r \in Requests : CoCommit(r)
    \/ \E r \in Requests : CoRollback(r)

SpecIdentity == InitIdentity /\ [][NextIdentity]_vars

\* C15: each user has at most one FacialData row and at most one
\* LoyaltyProgram row in every state; a face_registration of a user who has a
\* row changes that row and adds none; and a loyalty_dashboard or checkout
\* that has tried to create the program of its user leaves exactly one.
OneFaceOneProgram ==
    /\ [](\A u \in Users :
            /\ Cardinality(FacesOf(u)) <= 1
            /\ Cardinality({i \in Indices(loyalty) : loyalty[i].user = u}) <= 1)
    /\ [][\A r \in Requests :
            /\ (req[r].pc = "fr_update" /\ req'[r].pc = "idle")
                  => /\ Len(facial') = Len(facial)
                     /\ \A i \in Indices(facial) :
                           /\ facial'[i].user = facial[i].user
                           /\ facial'[i].deleted = facial[i].deleted
                     /\ facial'[req[r].item].face_encoding = 1
            /\ (req[r].pc \in {"ld_create", "co_loyalty_create"} /\ req'[r] # req[r])
                  => Cardinality({i \in Indices(loyalty') :
                                     loyalty'[i].user = req[r].user}) = 1]_vars

\* a first-time checkout has lost the race for the program of its user to a
\* loyalty_dashboard request, and a seeded face has been registered again
RacedForProgram ==
    /\ \E r \in Requests :
          /\ req[r].pc = "co_rollback"
          /\ req[r].tx.txn # <<>>
          /\ \E i \in Indices(loyalty) :
                loyalty[i].user = req[r].user /\ loyalty[i].total_points_earned = 0
    /\ \E i \in Indices(facial) : ~facial[i].deleted /\ facial[i].face_encoding = 1

\* C21: every ShoppingCart line has quantity >= 1 in every state and so has
\* every TransactionItem; an add_to_cart that writes leaves its line with
\* quantity 1 or with one more than it read, an update_cart_item POST with a
\* quantity <= 0 deletes its line and with a quantity > 0 sets exactly that
\* quantity.
LinesHoldAtLeastOne ==
    /\ [](/\ \A i \in Indices(cart_rows) :
                ~cart_rows[i].deleted => cart_rows[i].quantity >= 1
          /\ \A i \in Indices(items) : items[i].quantity >= 1)
    /\ [][\A r \in Requests :
            /\ (req[r].pc = "ac_insert" /\ cart_rows' # cart_rows)
                  => cart_rows'[Len(cart_rows')].quantity = 1
            /\ (req[r].pc = "ac_save" /\ cart_rows' # cart_rows)
                  => cart_rows'[req[r].item].quantity = req[r].read + 1
            /\ (req[r].pc = "uc_lookup" /\ cart_rows' # cart_rows)
                  => /\ req[r].method = "POST"
                     /\ IF req[r].quantity <= 0
                        THEN cart_rows'[req[r].item].deleted
                        ELSE /\ ~cart_rows'[req[r].item].deleted
                             /\ cart_rows'[req[r].item].quantity = req[r].quantity]_vars

\* a line has been deleted by a submitted quantity below 1, another holds a
\* submitted quantity, and a checkout has created its items
QuantitySubmittedAndSold ==
    /\ \E i \in Indices(cart_rows) : cart_rows[i].deleted
    /\ \E i \in Indices(cart_rows) :
          ~cart_rows[i].deleted /\ cart_rows[i].quantity = MaxCartQty
    /\ \E i \in Indices(items) : items[i].quantity = MaxCartQty

\* ------------------------------------------------ add_to_cart and the stock
\* a store with one unit of product 1 and no StoreInventory row of product 2
InitStockCheck == InitDeployed([workers |-> {1, 2}, stocked |-> {1}])

NextStockCheck ==
    \/ \E r \in Requests : StartShoppingSession(r)
    \/ \E r \in Requests : SsCreate(r)
    \/ \E r \in Requests : AddToCart(r)
    \/ \E r \in Requests : AcLookup(r)
    \/ \E r \in Requests : AcGet(r)
    \/ \E r \in Requests : AcInsert(r)
    \/ \E r \in Requests : AcSave(r)
    \/ \E r \in Requests : Checkout(r)
    \/ \E r \in Requests : CoCartExists(r)
    \/ \E r \in Requests : CoTotals(r)
    \/ \E r \in Requests : CoInsertTransaction(r)
    \/ \E r \in Requests : CoStock(r)
    \/ \E r \in Requests : CoCreateLoyalty(r)
    \/ \E r \in Requests : CoCommit(r)
    \/ \E r \in Requests : CoRollback(r)

SpecStockCheck == InitStockCheck /\ [][NextStockCheck]_vars

\* C22: an add_to_cart whose check finds no StoreInventory row of the product,
\* or a row with quantity <= 0, ends there with the cart unchanged; an
\* add_to_cart request goes on to its get_or_create only from a check that
\* found a row with quantity > 0, and a cart line is created or incremented
\* only by a request that has gone on.
AddToCartNeedsStock ==
    [][\A r \in Requests :
         /\ (/\ req[r].pc = "ac_lookup"
             /\ req'[r] # req[r]
             /\ ~(req[r].cur \in DOMAIN inventory /\ inventory[req[r].cur] > 0))
               => /\ req'[r].pc = "idle"
                  /\ cart_rows' = cart_rows
                  /\ cart' = cart
         /\ (req'[r].pc = "ac_get" /\ req[r].pc # "ac_get")
               => /\ req[r].pc = "ac_lookup"
                  /\ req[r].cur \in DOMAIN inventory
                  /\ inventory[req[r].cur] > 0
         /\ (req'[r].pc \in {"ac_insert", "ac_save"} /\ req'[r].pc # req[r].pc)
               => req[r].pc \in {"ac_get", "ac_insert"}
         /\ cart_rows' # cart_rows
               => \E q \in Requests :
                     req[q].pc \in {"ac_insert", "ac_save"} /\ req'[q].pc = "idle"]_vars

\* the last unit of a product has been sold by a committed checkout, and an
\* add_to_cart of an ACTIVE session that holds a line of it is at its stock
\* check
SoldOutAtTheCheck ==
    \E r \in Requests :
       /\ req[r].pc = "ac_lookup"
       /\ SessionFound(req[r].sid, req[r].user, TRUE)
       /\ ProductFound(req[r].cur)
       /\ req[r].cur \in DOMAIN inventory
       /\ inventory[req[r].cur] <= 0
       /\ LinesOf(cart_rows, req[r].sid, req[r].cur) # {}
       /\ \E i \in Indices(transactions) : transactions[i].status = "COMPLETED"

\* ------------------------------------------- start_shopping_session by store
\* Store.is_active: the seeded store, and a store deactivated in the admin
StoreActive == <<TRUE, FALSE>>

\* get_object_or_404(Store, id=store_id) without the is_active filter
StoreFoundInactive(s) == s \in DOMAIN StoreActive

\* get_object_or_404(Store, id=store_id, is_active=True)
StoreFound(s) == s \in DOMAIN StoreActive /\ StoreActive[s]

\* the request arrives: the user and the store_id of the URL (the id of a
\* store, or one past them that no store has)
StartShoppingSessionAt(r) ==
    /\ req[r].pc = "idle"
    /\ \E u \in Users, store_id \in 1..(Len(StoreActive) + 1) :
          Goto(r, [Idle EXCEPT !.pc = "ss_lookup", !.user = u, !.cur = store_id])
    /\ UNCHANGED db

\* the store lookup, the face check and the query for an ACTIVE session
SsLookup(r) ==
    /\ req[r].pc = "ss_lookup"
    /\ IF /\ StoreFound(req[r].cur)
          /\ HasFace(req[r].user)
          /\ ActiveSessionsOf(req[r].user) = {}
       THEN Goto(r, [req[r] EXCEPT !.pc = "ss_create"])
       ELSE Finish(r)
    /\ UNCHANGED db

InitEntry == InitDeployed([workers |-> {1, 2}, stocked |-> {2}])

NextEntry ==
    \/ \E r \in Requests : StartShoppingSessionAt(r)
    \/ \E r \in Requests : SsLookup(r)
    \/ \E r \in Requests : SsCreate(r)
    \/ \E r \in Requests : FaceRegistration(r)
    \/ \E r \in Requests : FrGet(r)
    \/ \E r \in Requests : FrInsert(r)
    \/ \E r \in Requests : FrUpdate(r)
    \/ \E r \in Requests : FaceDelete(r)

SpecEntry == InitEntry /\ [][NextEntry]_vars

\* C23: a start_shopping_session request whose checks find no active store of
\* the given id, or no active FacialData row of the user, ends with no
\* ShoppingSession, FaceRecognitionLog or AuditLog row created; a request goes
\* on to create the session only from checks that found both; and a
\* ShoppingSession row, an ENTRY log row or a ShoppingSession audit row is
\* created only by a request that has gone on, for its user.
SessionNeedsFaceAndStore ==
    [][\A r \in Requests :
         LET face == \E i \in Indices(facial) :
                        /\ ~facial[i].deleted
                        /\ facial[i].user = req[r].user
                        /\ facial[i].is_active
             store == req[r].cur \in DOMAIN StoreActive /\ StoreActive[req[r].cur]
         IN
         /\ (req[r].pc = "ss_lookup" /\ req'[r] # req[r] /\ ~(face /\ store))
               => /\ req'[r].pc = "idle"
                  /\ sessions' = sessions
                  /\ fr_log' = fr_log
                  /\ audit_log' = audit_log
         /\ (req'[r].pc = "ss_create" /\ req[r].pc # "ss_create")
               => req[r].pc = "ss_lookup" /\ face /\ store
         /\ (\/ sessions' # sessions
             \/ \E f \in fr_log' \ fr_log : f.recognition_type = "ENTRY"
             \/ \E a \in audit_log' \ audit_log : a.model_name = "ShoppingSession")
               => \E q \in Requests :
                     /\ req[q].pc = "ss_create"
                     /\ req'[q].pc = "idle"
                     /\ Len(sessions') = Len(sessions) + 1
                     /\ sessions'[Len(sessions')].user = req[q].user]_vars

\* a session has been created, its user's face has been deleted since, and a
\* request of that user for the active store is at its checks while a request
\* for the deactivated store is at its checks too
FaceGoneAtTheCheck ==
    \E r, q \in Requests :
       /\ req[r].pc = "ss_lookup"
       /\ StoreFound(req[r].cur)
       /\ ~HasFace(req[r].user)
       /\ \E s \in Indices(sessions) : sessions[s].user = req[r].user
       /\ req[q].pc = "ss_lookup"
       /\ req[q].cur \in DOMAIN StoreActive
       /\ ~StoreActive[req[q].cur]
       /\ HasFace(req[q].user)

\* ---------------------------------------------------- add_payment_account
\* the ids a PaymentAccount row can take
AccountIds == {1, 2, 3, 4}

\* the next id of the table: ids of deleted rows are not handed out again
NextAccountId ==
    LET used == DOMAIN accounts \cup Accounts \cup
                {a.object_id : a \in {b \in audit_log :
                     b.model_name = "PaymentAccount" /\ b.action = "CREATE"}}
    IN  CHOOSE n \in 1..(Cardinality(used) + 1) :
            n \notin used /\ \A m \in used : m < n

\* unique_together = ['user', 'account_number']
AccountInsertOk(u, account_number) ==
    \A a \in DOMAIN accounts :
        ~(accounts[a].user = u /\ accounts[a].account_number = account_number)

\* PaymentAccount.objects.filter(user=request.user, is_primary=True)
\*     .update(is_primary=False)
UnsetPrimary(rows, u) ==
    [a \in DOMAIN rows |->
        IF rows[a].user = u THEN [rows[a] EXCEPT !.is_primary = FALSE] ELSE rows[a]]

account_frame == <<sessions, cart, inventory, transactions, items, loyalty,
                   loyalty_txns, fr_log, products, facial, custom_users, cart_rows>>

\* the request arrives: request.POST['account_number'] and
\* request.POST.get('is_primary')
AddPaymentAccount(r) ==
    /\ req[r].pc = "idle"
    /\ \E u \in Users, account_number \in {"+254u1", "4000"},
          is_primary \in {"on", ""}, method \in {"GET", "POST"} :
          Goto(r, [Idle EXCEPT !.pc = "ap_unset", !.user = u, !.method = method,
                               !.form = <<account_number, is_primary>>])
    /\ UNCHANGED db

\* for a POST with is_primary == 'on': the UPDATE that unsets the primary
\* accounts of the user
ApUnset(r) ==
    /\ req[r].pc = "ap_unset"
    /\ IF IsPost(req[r].method)
       THEN /\ accounts' = IF req[r].form[2] = "on"
                           THEN UnsetPrimary(accounts, req[r].user)
                           ELSE accounts
            /\ Goto(r, [req[r] EXCEPT !.pc = "ap_create"])
       ELSE /\ UNCHANGED accounts
            /\ Finish(r)
    /\ UNCHANGED <<audit_log, account_frame>>

\* PaymentAccount.objects.create(...) and log_audit(user, 'CREATE', ...); an
\* IntegrityError of the unique index ends the request
ApCreate(r) ==
    /\ req[r].pc = "ap_create"
    /\ LET u == req[r].user
           a == NextAccountId IN
       IF AccountInsertOk(u, req[r].form[1])
       THEN /\ a \in AccountIds
            /\ accounts' = [b \in DOMAIN accounts \cup {a} |->
                              IF b = a
                              THEN [user |-> u, is_active |-> TRUE,
                                    is_verified |-> FALSE,
                                    is_primary |-> (req[r].form[2] = "on"),
                                    account_number |-> req[r].form[1]]
                              ELSE accounts[b]]
            /\ audit_log' = audit_log \cup {AuditRow(u, "CREATE", "PaymentAccount", a)}
       ELSE UNCHANGED <<accounts, audit_log>>
    /\ Finish(r)
    /\ UNCHANGED account_frame

NextAccounts ==
    \/ \E r \in Requests : AddPaymentAccount(r)
    \/ \E r \in Requests : ApUnset(r)
    \/ \E r \in Requests : ApCreate(r)
    \/ \E r \in Requests : DeletePaymentAccount(r)
    \/ \E r \in Requests : DpLookup(r)

\* two requests at a time against the seeded accounts
SpecAccounts == InitEntry /\ [][NextAccounts]_vars

\* C24: in every state each user has at most one PaymentAccount with
\* is_primary = True.
OnePrimaryPerUser ==
    \A u \in Users :
        Cardinality({a \in DOMAIN accounts :
                        accounts[a].user = u /\ accounts[a].is_primary}) <= 1

\* C25: a row added to ShoppingSession is ACTIVE without exit_time and is added
\* by start_shopping_session; the only change of a session row is ACTIVE ->
\* COMPLETED with exit_time set, made by the commit of a checkout of that
\* session; and in every committed state a session is COMPLETED with
\* exit_time set exactly when it has a Transaction with status COMPLETED.
SessionStatusMovesForward ==
    /\ [](\A s \in Indices(sessions) :
            (sessions[s].status = "COMPLETED" /\ sessions[s].exit_time)
               <=> \E t \in Indices(transactions) :
                      /\ transactions[t].session = s
                      /\ transactions[t].status = "COMPLETED")
    /\ [][/\ Len(sessions') >= Len(sessions)
          /\ \A s \in Indices(sessions') :
               IF s \notin Indices(sessions)
               THEN /\ sessions'[s].status = "ACTIVE"
                    /\ ~sessions'[s].exit_time
                    /\ \E r \in Requests :
                          /\ req[r].pc = "ss_create"
                          /\ req'[r].pc = "idle"
                          /\ sessions'[s].user = req[r].user
               ELSE sessions'[s] # sessions[s]
                       => /\ sessions[s].status = "ACTIVE"
                          /\ sessions'[s] = [sessions[s] EXCEPT !.status = "COMPLETED",
                                                                !.exit_time = TRUE]
                          /\ \E r \in Requests :
                                /\ req[r].pc \in CommitPcs
                                /\ req[r].sid = s
                                /\ req'[r].pc = "idle"]_vars

\* one session has been completed by its checkout while the checkout of
\* another session has failed inside its atomic block and left it ACTIVE
CompletedBesideFailed ==
    \E s, s2 \in Indices(sessions), r \in Requests :
       /\ sessions[s].status = "COMPLETED"
       /\ sessions[s].exit_time
       /\ TransactionsOf(s) # {}
       /\ sessions[s2].status = "ACTIVE"
       /\ req[r].pc = "co_rollback"
       /\ req[r].sid = s2
       /\ req[r].tx.txn # <<>>

\* ------------------------------------------------- the rows of each user
\* seed_shopping_sessions: an ACTIVE session of u1 with an empty cart; then
\* one request at a time, by either user, of the handlers that look rows up
\* by an id of the URL or the form
InitOwners ==
    /\ InitRest
    /\ sessions = <<[user |-> "u1", status |-> "ACTIVE", exit_time |-> FALSE]>>
    /\ cart = [s \in SessionIds |-> [p \in Products |-> NoLine]]
    /\ inventory = [p \in {2} |-> InitStock[p]]
    /\ req = [r \in {1} |-> Idle]
    /\ transactions = <<>>
    /\ items = <<>>
    /\ loyalty = <<SeedLoyaltyProgram("u1", SeedPoints, SeedRedeemed(SeedPoints))>>
    /\ loyalty_txns = SeedLoyaltyTransactions(1, SeedPoints)
    /\ fr_log = {}
    /\ audit_log = {}

NextOwners ==
    \/ \E r \in Requests : StartShoppingSession(r)
    \/ \E r \in Requests : SsCreate(r)
    \/ \E r \in Requests : AddToCart(r)
    \/ \E r \in Requests : AcLookup(r)
    \/ \E r \in Requests : AcGet(r)
    \/ \E r \in Requests : AcInsert(r)
    \/ \E r \in Requests : AcSave(r)
    \/ \E r \in Requests : UpdateCartItem(r)
    \/ \E r \in Requests : UcLookup(r)
    \/ \E r \in Requests : RemoveFromCart(r)
    \/ \E r \in Requests : RcLookup(r)
    \/ \E r \in Requests : Checkout(r)
    \/ \E r \in Requests : CoCartExists(r)
    \/ \E r \in Requests : CoTotals(r)
    \/ \E r \in Requests : CoInsertTransaction(r)
    \/ \E r \in Requests : CoStock(r)
    \/ \E r \in Requests : CoCreateLoyalty(r)
    \/ \E r \in Requests : CoCommit(r)
    \/ \E r \in Requests : DeletePaymentAccount(r)
    \/ \E r \in Requests : DpLookup(r)

SpecOwners == InitOwners /\ [][NextOwners]_vars

\* the rows that belong to user u: sessions, cart lines (through their
\* session), transactions, payment accounts, facial data, loyalty programs
RowsOf(u, ss, cr, txs, acs, fa, lo) ==
    <<{<<s, ss[s]>> : s \in {x \in Indices(ss) : ss[x].user = u}},
      {<<i, cr[i]>> : i \in {x \in Indices(cr) :
                                 /\ ~cr[x].deleted
                                 /\ cr[x].session \in Indices(ss)
                                 /\ ss[cr[x].session].user = u}},
      {<<t, txs[t]>> : t \in {x \in Indices(txs) : txs[x].user = u}},
      {<<a, acs[a]>> : a \in {x \in DOMAIN acs : acs[x].user = u}},
      {<<i, fa[i]>> : i \in {x \in Indices(fa) : ~fa[x].deleted /\ fa[x].user = u}},
      {<<i, lo[i]>> : i \in {x \in Indices(lo) : lo[x].user = u}}>>

CheckoutAmounts(exactVat) ==
    \A r \in Requests :
       /\ (req[r].pc = "co_totals" /\ req'[r].pc = "co_insert")
             => req'[r].lines =
                   [p \in {x \in Products : cart[req[r].sid][x].quantity > 0} |->
                       [quantity |-> cart[req[r].sid][p].quantity,
                        unit_price |-> cart[req[r].sid][p].unit_price,
                        vat_rate |-> products[p].vat_rate]]
       /\ (req[r].pc \in CommitPcs /\ req'[r].pc = "idle")
             => LET L == req[r].lines
                    t == transactions'[Len(transactions')]
                    its == SubSeq(items', Len(items) + 1, Len(items'))
                    sub == SumSet(DOMAIN L, [p \in DOMAIN L |->
                                     L[p].unit_price * L[p].quantity])
                    vat == SumSet(DOMAIN L, [p \in DOMAIN L |->
                                     L[p].unit_price * L[p].quantity * L[p].vat_rate])
                IN
                /\ Len(transactions') = Len(transactions) + 1
                /\ t.subtotal = sub
                /\ IF exactVat THEN t.vat_amount * CentMicro = vat
                   ELSE t.vat_amount = Quantize(vat)
                /\ t.discount_amount = 0
                /\ t.total_amount = t.subtotal + t.vat_amount - t.discount_amount
                /\ Len(its) = Cardinality(DOMAIN L)
                /\ \A p \in DOMAIN L :
                      \E i \in Indices(its) :
                         /\ its[i].product = p
                         /\ its[i].quantity = L[p].quantity
                         /\ its[i].unit_price = L[p].unit_price
                         /\ its[i].vat_rate = L[p].vat_rate

====
